---- MODULE Spec2Model ----
(***************************************************************************)
(* safebot (src/app.py): a Flask chat handler that answers a query with a  *)
(* canned greeting/exit reply or with the answer of the knowledge-base     *)
(* entry whose question has the highest cosine similarity to the query.    *)
(*                                                                         *)
(* A text is a sequence of one-character strings.  A float is represented  *)
(* by the exact value num/sqrt(den2) it approximates together with the     *)
(* number of representable doubles (ulps) by which the IEEE-754 result of  *)
(* the code's expression lies above the correctly rounded value.           *)
(***************************************************************************)
EXTENDS Integers, Sequences, FiniteSets, TLC

\* ------------------------------------------------------------------ bounds
MaxWords == 3       \* words in a request's user_input
MaxCorpus == 2      \* entries in the knowledge base

\* ------------------------------------------------------------- raw words
Blank == <<" ">>
Cat == <<"C", "a", "t">>
DogsQ == <<"d", "o", "g", "s", "?">>
Fish == <<"f", "i", "s", "h">>
Is == <<"i", "s">>
Hi == <<"H", "i">>
This == <<"t", "h", "i", "s">>
Bye == <<"b", "y", "e">>

RECURSIVE Join(_)
\* the words of ws separated by single spaces
Join(ws) ==
    IF ws = << >> THEN << >>
    ELSE IF Len(ws) = 1 THEN ws[1]
    ELSE ws[1] \o <<" ">> \o Join(Tail(ws))

WordSeqs(W, n) == UNION {[1..k -> W] : k \in 0..n}
Texts(W, n) == {Join(ws) : ws \in WordSeqs(W, n)}

\* ---------------------------------------------------------- str methods
UpperCase == {"C", "H", "W"}
LowerChar(c) ==
    CASE c = "C" -> "c"
      [] c = "H" -> "h"
      [] c = "W" -> "w"
      [] OTHER -> c

Lower(s) == [i \in 1..Len(s) |-> LowerChar(s[i])]

AlnumChars == {"a", "b", "c", "d", "e", "f", "g", "h", "i", "o", "r", "s",
               "t", "w", "y"} \cup UpperCase
Whitespace == {" "}

IsAlnum(w) == Len(w) > 0 /\ \A i \in 1..Len(w) : w[i] \in AlnumChars

RECURSIVE LStrip(_)
LStrip(s) == IF s # << >> /\ Head(s) \in Whitespace THEN LStrip(Tail(s)) ELSE s

RECURSIVE RStrip(_)
RStrip(s) ==
    IF s # << >> /\ s[Len(s)] \in Whitespace
    THEN RStrip(SubSeq(s, 1, Len(s) - 1)) ELSE s

Strip(s) == RStrip(LStrip(s))

\* Python's `sub in s`
Contains(sub, s) ==
    \E i \in 0..(Len(s) - Len(sub)) : SubSeq(s, i + 1, i + Len(sub)) = sub

\* ------------------------------------------------------------ preprocess
RECURSIVE Scan(_, _, _)
\* word_tokenize on the texts of this model: whitespace separates tokens
\* and a character that is neither alphanumeric nor whitespace is a token
\* of its own
Scan(s, i, cur) ==
    LET flush == IF cur = << >> THEN << >> ELSE <<cur>>
    IN IF i > Len(s) THEN flush
       ELSE IF s[i] \in Whitespace THEN flush \o Scan(s, i + 1, << >>)
       ELSE IF s[i] \notin AlnumChars
            THEN flush \o <<(<<s[i]>>)>> \o Scan(s, i + 1, << >>)
       ELSE Scan(s, i + 1, Append(cur, s[i]))

word_tokenize(s) == Scan(s, 1, << >>)

\* the members of stopwords.words('english') that the texts can contain
stop_words == {<<"i", "s">>, <<"t", "h", "i", "s">>, <<"w", "h", "a", "t">>,
               <<"i", "t">>}

\* the WordNet nouns that the texts can contain
WordNetNouns == {<<"c", "a", "t">>, <<"d", "o", "g">>, <<"f", "i", "s", "h">>,
                 <<"b", "i", "r", "d">>, <<"h", "i">>, <<"b", "y", "e">>}

\* WordNetLemmatizer.lemmatize(word) (pos = noun): a word WordNet knows is
\* its own lemma; otherwise the plural suffix "s" is detached when what is
\* left is a WordNet noun
lemmatize(w) ==
    IF w \in WordNetNouns THEN w
    ELSE IF Len(w) > 1 /\ w[Len(w)] = "s"
            /\ SubSeq(w, 1, Len(w) - 1) \in WordNetNouns
         THEN SubSeq(w, 1, Len(w) - 1)
         ELSE w

RECURSIVE FilterLemmatize(_)
FilterLemmatize(ts) ==
    IF ts = << >> THEN << >>
    ELSE IF IsAlnum(Head(ts)) /\ Head(ts) \notin stop_words
         THEN <<lemmatize(Head(ts))>> \o FilterLemmatize(Tail(ts))
         ELSE FilterLemmatize(Tail(ts))

preprocess(text) == FilterLemmatize(word_tokenize(Lower(text)))

\* -------------------------------------------------------------- vectorize
Count(tokens, t) == Cardinality({i \in 1..Len(tokens) : tokens[i] = t})

\* Counter(tokens): token -> number of occurrences
vectorize(tokens) ==
    [t \in {tokens[i] : i \in 1..Len(tokens)} |-> Count(tokens, t)]

RECURSIVE SumOver(_, _)
SumOver(S, f) ==
    IF S = {} THEN 0
    ELSE LET x == CHOOSE y \in S : TRUE
         IN f[x] + SumOver(S \ {x}, f)

\* ----------------------------------------------------------------- floats
\* [num, den2, ulps]: the double lying `ulps` representable values above the
\* double nearest to num / sqrt(den2)
Zero == [num |-> 0, den2 |-> 1, ulps |-> 0]
One == [num |-> 1, den2 |-> 1, ulps |-> 0]
\* stands for the exception raised by a float division by zero
ZeroDivisionError == [num |-> 0, den2 |-> 0, ulps |-> 0]

\* IEEE-754 double result of n / (math.sqrt(s1) * math.sqrt(s2)), as the
\* distance in ulps from the correctly rounded quotient, for the operand
\* triples <<n, s1, s2>> that texts of up to MaxWords + 1 words produce
UlpsMinus2 == {<<1, 2, 2>>, <<2, 2, 2>>, <<2, 8, 2>>, <<4, 8, 2>>}
UlpsMinus1 == {<<1, 1, 2>>, <<1, 2, 1>>, <<1, 2, 4>>, <<2, 2, 4>>, <<2, 3, 2>>,
               <<2, 4, 2>>, <<2, 8, 1>>, <<2, 8, 4>>, <<3, 2, 9>>, <<3, 9, 2>>,
               <<4, 8, 4>>, <<4, 16, 2>>, <<6, 8, 9>>}
UlpsPlus1 == {<<1, 3, 1>>, <<1, 3, 4>>, <<1, 6, 1>>, <<1, 6, 4>>, <<2, 6, 1>>,
              <<2, 6, 2>>, <<2, 6, 4>>, <<3, 3, 4>>, <<3, 6, 2>>, <<3, 6, 9>>,
              <<4, 6, 4>>, <<6, 6, 9>>}

Ulps(n, s1, s2) ==
    CASE <<n, s1, s2>> \in UlpsMinus2 -> -2
      [] <<n, s1, s2>> \in UlpsMinus1 -> -1
      [] <<n, s1, s2>> \in UlpsPlus1 -> 1
      [] OTHER -> 0

\* x > y on floats (operands are non-negative)
Gt(x, y) ==
    \/ x.num * x.num * y.den2 > y.num * y.num * x.den2
    \/ /\ x.num * x.num * y.den2 = y.num * y.num * x.den2
       /\ x.ulps > y.ulps

\* numerator / denominator with denominator = sqrt(sum1) * sqrt(sum2)
Divide(numerator, sum1, sum2) ==
    IF sum1 * sum2 = 0 THEN ZeroDivisionError
    ELSE [num |-> numerator, den2 |-> sum1 * sum2,
          ulps |-> Ulps(numerator, sum1, sum2)]

\* ------------------------------------------------------ cosine_similarity
Numerator(vec1, vec2) ==
    LET intersection == DOMAIN vec1 \cap DOMAIN vec2
    IN SumOver(intersection, [x \in intersection |-> vec1[x] * vec2[x]])

\* the mutant: the counts are summed without being squared
SumValues(vec) == SumOver(DOMAIN vec, [x \in DOMAIN vec |-> vec[x]])

SumSquares(vec) == SumOver(DOMAIN vec, [x \in DOMAIN vec |-> vec[x] * vec[x]])

\* the mutant: the quotient without the zero-denominator guard
cosine_similarity_unguarded(vec1, vec2) ==
    Divide(Numerator(vec1, vec2), SumSquares(vec1), SumSquares(vec2))

cosine_similarity(vec1, vec2) ==
    LET numerator == Numerator(vec1, vec2)
        sum1 == SumSquares(vec1)
        sum2 == SumSquares(vec2)
    IN IF sum1 * sum2 # 0 THEN Divide(numerator, sum1, sum2) ELSE Zero

\* -------------------------------------------------------- find_best_match
None == 0
\* the literal 0.1 of the final comparison
Threshold == [num |-> 1, den2 |-> 100, ulps |-> 0]

\* the mutant: every entry with a positive score replaces the best match
BetterThanZero(similarity, highest_similarity) == Gt(similarity, Zero)

\* the mutant: a later entry with an equal score replaces the best match
BetterGe(similarity, highest_similarity) ==
    ~ Gt(highest_similarity, similarity)

\* the loop's test for a new best match
Better(similarity, highest_similarity) == Gt(similarity, highest_similarity)

\* the mutant: a score equal to the threshold is accepted
AcceptGe(highest_similarity, threshold) ==
    ~ Gt(threshold, highest_similarity)

\* the final test against the threshold
Accept(highest_similarity, threshold) == Gt(highest_similarity, threshold)

\* the similarity the loop computes for one entry
Similarity(user_input, entry) ==
    cosine_similarity(vectorize(preprocess(user_input)),
                      vectorize(preprocess(entry.question)))

RECURSIVE Loop(_, _, _, _, _)
\* the for loop over the knowledge base: best_match is the index of the
\* entry the variable refers to (None = 0); vectorized counts the calls of
\* vectorize and compared the calls of cosine_similarity
Loop(user_vector, knowledge_base, i, best_match, highest_similarity) ==
    IF i > Len(knowledge_base)
    THEN [best_match |-> best_match, highest_similarity |-> highest_similarity,
          vectorized |-> i, compared |-> i - 1, raised |-> FALSE]
    ELSE LET question_vector == vectorize(preprocess(knowledge_base[i].question))
             similarity == cosine_similarity(user_vector, question_vector)
         IN IF similarity = ZeroDivisionError
            THEN [best_match |-> None, highest_similarity |-> highest_similarity,
                  vectorized |-> i + 1, compared |-> i, raised |-> TRUE]
            ELSE IF Better(similarity, highest_similarity)
                 THEN Loop(user_vector, knowledge_base, i + 1, i, similarity)
                 ELSE Loop(user_vector, knowledge_base, i + 1, best_match,
                           highest_similarity)

RECURSIVE FirstAbove(_, _, _, _)
FirstAbove(user_input, knowledge_base, i, threshold) ==
    IF i > Len(knowledge_base) THEN None
    ELSE IF Gt(Similarity(user_input, knowledge_base[i]), threshold) THEN i
    ELSE FirstAbove(user_input, knowledge_base, i + 1, threshold)

\* the mutant: the first entry whose score clears the threshold is returned
FindBestMatchFirstAbove(user_input, knowledge_base, threshold) ==
    LET r == Loop(vectorize(preprocess(user_input)), knowledge_base, 1, None, Zero)
    IN [r EXCEPT !.best_match = FirstAbove(user_input, knowledge_base, 1, threshold)]

\* the mutant: the best score is averaged over the size of the corpus
FindBestMatchAveraged(user_input, knowledge_base, threshold) ==
    LET r == Loop(vectorize(preprocess(user_input)), knowledge_base, 1, None, Zero)
    IN IF Len(knowledge_base) = 0
       THEN [r EXCEPT !.raised = TRUE]
       ELSE [r EXCEPT !.best_match =
                IF Accept(r.highest_similarity, threshold)
                THEN r.best_match ELSE None]

\* find_best_match with the literal of its last line as a parameter
FindBestMatch(user_input, knowledge_base, threshold) ==
    LET user_vector == vectorize(preprocess(user_input))
        r == Loop(user_vector, knowledge_base, 1, None, Zero)
    IN [r EXCEPT !.best_match =
           IF ~ r.raised /\ Accept(r.highest_similarity, threshold)
           THEN r.best_match ELSE None]

find_best_match(user_input, knowledge_base) ==
    FindBestMatch(user_input, knowledge_base, Threshold)

\* ---------------------------------------------------- load_knowledge_base
\* the state of knowledge_base.json: whether it exists, whether it parses
\* as JSON, and the list of objects it then holds
\* the mutant: the parsed list is returned without validating its entries
load_knowledge_base_unvalidated(file) ==
    IF file.exists /\ file.valid THEN file.content ELSE << >>

load_knowledge_base(file) ==
    IF file.exists
    THEN IF ~ file.valid THEN << >>
         ELSE IF ~ \A i \in 1..Len(file.content) :
                      /\ "question" \in DOMAIN file.content[i]
                      /\ "answer" \in DOMAIN file.content[i]
              THEN << >>
              ELSE file.content
    ELSE << >>

\* ------------------------------------------------------------------- chat
GreetingResponses == {"Hello! How can I assist you today?",
                      "Hi there! How's it going?",
                      "Hey! How can I help you?",
                      "Hi, how are you?",
                      "Hello! How can I help you today?"}

ExitResponses == {"Goodbye! Have a great day!",
                  "Bye! Take care!",
                  "See you later! Goodbye!",
                  "It was nice talking to you. Bye!"}

greetings == {<<"h", "i">>,
              <<"h", "e", "l", "l", "o">>,
              <<"h", "e", "y">>,
              <<"h", "o", "w", " ", "a", "r", "e", " ", "y", "o", "u">>,
              <<"h", "o", "w", "'", "s", " ", "i", "t", " ", "g", "o", "i",
                "n", "g">>}

exits == {<<"e", "x", "i", "t">>,
          <<"b", "y", "e">>,
          <<"g", "o", "o", "d", "b", "y", "e">>}

HasGreeting(text) == \E greeting \in greetings : Contains(greeting, Lower(text))
HasExit(text) == \E exit_word \in exits : Contains(exit_word, Lower(text))

NoResult == [best_match |-> None, highest_similarity |-> Zero,
             vectorized |-> 0, compared |-> 0, raised |-> FALSE]

Reply(responses, called, knowledge_base, result) ==
    [responses |-> responses, called |-> called,
     knowledge_base |-> knowledge_base, result |-> result]

\* the mutant: the exit phrases are tested before the greeting phrases
chat_exit_first(data_input, file) ==
    LET stripped == Strip(data_input)
        kb == load_knowledge_base(file)
        match == find_best_match(stripped, kb)
    IN IF stripped = << >>
       THEN Reply({"Please provide a valid input."}, {}, << >>, NoResult)
       ELSE IF HasExit(stripped)
       THEN Reply(ExitResponses, {}, << >>, NoResult)
       ELSE IF HasGreeting(stripped)
       THEN Reply(GreetingResponses, {}, << >>, NoResult)
       ELSE IF kb = << >>
       THEN Reply({"Sorry, the knowledge base is not available."},
                  {"load_knowledge_base"}, kb, NoResult)
       ELSE IF match.best_match # None
       THEN Reply({kb[match.best_match].answer},
                  {"load_knowledge_base", "find_best_match"}, kb, match)
       ELSE Reply({"I'm sorry, I didn't understand that."},
                  {"load_knowledge_base", "find_best_match"}, kb, match)

\* the mutant: the knowledge base is loaded before the shortcuts are tested
chat_load_first(data_input, file) ==
    LET stripped == Strip(data_input)
        kb == load_knowledge_base(file)
        match == find_best_match(stripped, kb)
    IN IF stripped = << >>
       THEN Reply({"Please provide a valid input."}, {}, << >>, NoResult)
       ELSE IF HasGreeting(stripped)
       THEN Reply(GreetingResponses, {"load_knowledge_base"}, kb, NoResult)
       ELSE IF HasExit(stripped)
       THEN Reply(ExitResponses, {"load_knowledge_base"}, kb, NoResult)
       ELSE IF kb = << >>
       THEN Reply({"Sorry, the knowledge base is not available."},
                  {"load_knowledge_base"}, kb, NoResult)
       ELSE IF match.best_match # None
       THEN Reply({kb[match.best_match].answer},
                  {"load_knowledge_base", "find_best_match"}, kb, match)
       ELSE Reply({"I'm sorry, I didn't understand that."},
                  {"load_knowledge_base", "find_best_match"}, kb, match)

\* the handler of POST /chat: the set of responses random.choice can pick
\* from, the functions called, and the handler's locals
chat(data_input, file) ==
    LET stripped == Strip(data_input)
        kb == load_knowledge_base(file)
        match == find_best_match(stripped, kb)
    IN IF stripped = << >>
       THEN Reply({"Please provide a valid input."}, {}, << >>, NoResult)
       ELSE IF HasGreeting(stripped)
       THEN Reply(GreetingResponses, {}, << >>, NoResult)
       ELSE IF HasExit(stripped)
       THEN Reply(ExitResponses, {}, << >>, NoResult)
       ELSE IF kb = << >>
       THEN Reply({"Sorry, the knowledge base is not available."},
                  {"load_knowledge_base"}, kb, NoResult)
       ELSE IF match.raised
       THEN Reply({"500 Internal Server Error"},
                  {"load_knowledge_base", "find_best_match"}, kb, match)
       ELSE IF match.best_match # None
       THEN Reply({kb[match.best_match].answer},
                  {"load_knowledge_base", "find_best_match"}, kb, match)
       ELSE Reply({"I'm sorry, I didn't understand that."},
                  {"load_knowledge_base", "find_best_match"}, kb, match)

\* ----------------------------------------------------------------- inputs
Entry(question, answer) == [question |-> question, answer |-> answer]

KBEntries ==
    {Entry(<<"c", "a", "t">>, "A1"),
     Entry(Join(<<Cat, <<"c", "a", "t">>, <<"c", "a", "t", "s", "?">> >>), "A2"),
     Entry(Join(<<(<<"W", "h", "a", "t">>), Is, <<"i", "t", "?">> >>), "A3"),
     Entry(Join(<<(<<"c", "a", "t", "s">>), <<"d", "o", "g">>, Fish,
                  <<"b", "i", "r", "d">> >>), "A4"),
     Entry(Join(<<(<<"d", "o", "g", "s">>), Fish>>), "A5")}

\* objects lacking one of the two fields
MalformedEntries == {[question |-> <<"c", "a", "t">>], [answer |-> "A1"]}

Corpora(E, n) == UNION {[1..k -> E] : k \in 0..n}

MatchWords == {Cat, DogsQ, Is}
ChatWords == {Hi, This, Bye, Cat, Blank}

Queries == Texts(MatchWords, MaxWords) \cup {e.question : e \in KBEntries}

\* 0, 0.1 and 0.5
Thresholds == {Zero, Threshold, [num |-> 1, den2 |-> 4, ulps |-> 0]}

Files ==
    {[exists |-> FALSE, valid |-> FALSE, content |-> << >>],
     [exists |-> TRUE, valid |-> FALSE, content |-> << >>]}
    \cup {[exists |-> TRUE, valid |-> TRUE, content |-> c] :
            c \in Corpora(KBEntries \cup MalformedEntries, MaxCorpus)}

NoFile == [exists |-> FALSE, valid |-> FALSE, content |-> << >>]

NoPrevious == [result |-> NoResult, threshold |-> Zero, knowledge_base |-> << >>]

RECURSIVE Duplicate(_)
\* every entry twice, order preserved
Duplicate(kb) ==
    IF kb = << >> THEN << >>
    ELSE <<Head(kb), Head(kb)>> \o Duplicate(Tail(kb))

\* ------------------------------------------------------------------ state
VARIABLES pc, user_input, file, knowledge_base, threshold, result, previous,
          called, response

vars == <<pc, user_input, file, knowledge_base, threshold, result, previous,
          called, response>>

\* ----------------------------------------------- one request to POST /chat
Init ==
    /\ pc = "ready"
    /\ user_input \in Texts(ChatWords, MaxWords)
    /\ file \in Files
    /\ knowledge_base = << >>
    /\ threshold = Threshold
    /\ result = NoResult
    /\ previous = NoPrevious
    /\ called = {}
    /\ response = ""

Chat ==
    /\ pc = "ready"
    /\ LET c == chat(user_input, file)
       IN /\ knowledge_base' = c.knowledge_base
          /\ result' = c.result
          /\ called' = c.called
          /\ \E r \in c.responses : response' = r
    /\ pc' = "responded"
    /\ UNCHANGED <<user_input, file, threshold, previous>>

Next == Chat

Spec == Init /\ [][Next]_vars

\* ------------------------------------- find_best_match as a pure function
MatchInit ==
    /\ pc = "start"
    /\ user_input \in Queries
    /\ knowledge_base \in Corpora(KBEntries, MaxCorpus)
    /\ threshold \in Thresholds
    /\ file = NoFile
    /\ result = NoResult
    /\ previous = NoPrevious
    /\ called = {}
    /\ response = ""

Match ==
    /\ pc = "start"
    /\ result' = FindBestMatch(user_input, knowledge_base, threshold)
    /\ pc' = "matched"
    /\ UNCHANGED <<user_input, file, knowledge_base, threshold, previous,
                   called, response>>

\* the same query and corpus matched again with a threshold t2 >= threshold
MatchRaised(t2) ==
    /\ pc = "matched"
    /\ ~ Gt(threshold, t2)
    /\ previous' = [result |-> result, threshold |-> threshold,
                    knowledge_base |-> knowledge_base]
    /\ threshold' = t2
    /\ result' = FindBestMatch(user_input, knowledge_base, t2)
    /\ pc' = "raised"
    /\ UNCHANGED <<user_input, file, knowledge_base, called, response>>

\* the same query matched again with every entry of the corpus duplicated
MatchDuplicated ==
    /\ pc = "matched"
    /\ previous' = [result |-> result, threshold |-> threshold,
                    knowledge_base |-> knowledge_base]
    /\ knowledge_base' = Duplicate(knowledge_base)
    /\ result' = FindBestMatch(user_input, Duplicate(knowledge_base), threshold)
    /\ pc' = "duplicated"
    /\ UNCHANGED <<user_input, file, threshold, called, response>>

MatchNext ==
    \/ Match
    \/ \E t2 \in Thresholds : MatchRaised(t2)
    \/ MatchDuplicated

MatchSpec == MatchInit /\ [][MatchNext]_vars

\* ================================================================= claims
Applied == pc \in {"matched", "raised", "duplicated"}

\* the score the code computes for entry j of the corpus
Score(j) == Similarity(user_input, knowledge_base[j])

\* C1: when find_best_match returns an entry, no entry of the corpus has a
\* greater score, and every entry before it has a strictly smaller score.
C1_MaxFirst ==
    (Applied /\ result.best_match # None) =>
        LET b == result.best_match
            scores == [j \in 1..Len(knowledge_base) |-> Score(j)]
        IN \A j \in 1..Len(knowledge_base) :
              /\ ~ Gt(scores[j], scores[b])
              /\ (j < b => Gt(scores[b], scores[j]))

\* a later entry ties with the returned one
C1_Witness ==
    /\ pc = "matched"
    /\ result.best_match # None
    /\ \E j \in 1..Len(knowledge_base) :
          /\ j > result.best_match
          /\ ~ Gt(Score(result.best_match), Score(j))
          /\ knowledge_base[j] # knowledge_base[result.best_match]

\* C2: find_best_match returns an entry if and only if some entry's score is
\* strictly greater than the threshold; a maximum equal to the threshold or
\* below it yields None.
C2_StrictThreshold ==
    Applied =>
        (result.best_match # None
            <=> \E j \in 1..Len(knowledge_base) : Gt(Score(j), threshold))

\* the maximum score is the threshold itself, and None is returned
C2_Witness ==
    /\ pc = "matched"
    /\ threshold # Zero
    /\ \E j \in 1..Len(knowledge_base) :
          ~ Gt(Score(j), threshold) /\ ~ Gt(threshold, Score(j))
    /\ \A j \in 1..Len(knowledge_base) : ~ Gt(Score(j), threshold)
    /\ result.best_match = None

\* C3 as stated: on an empty corpus find_best_match returns None without
\* any call of vectorize and without a division by zero.
C3_NoVectorization ==
    (Applied /\ knowledge_base = << >>) =>
        /\ result.best_match = None
        /\ ~ result.raised
        /\ result.vectorized = 0

\* C3 amended: on an empty corpus find_best_match returns None with no
\* division by zero, no similarity computed and no corpus question
\* vectorized; the query alone is preprocessed and vectorized.
C3_EmptyCorpus ==
    (Applied /\ knowledge_base = << >>) =>
        /\ result.best_match = None
        /\ ~ result.raised
        /\ result.compared = 0
        /\ result.vectorized = 1

C3_Witness ==
    /\ pc = "matched"
    /\ knowledge_base = << >>
    /\ preprocess(user_input) # << >>
    /\ result.best_match = None

\* C4: a query that normalizes to no token has an all-zero vector, scores 0
\* against every entry without a division by zero, and is answered None.
C4_EmptyQuery ==
    preprocess(user_input) = << >> =>
        /\ DOMAIN vectorize(preprocess(user_input)) = {}
        /\ \A j \in 1..Len(knowledge_base) : Score(j) = Zero
        /\ Applied => (result.best_match = None /\ ~ result.raised)

\* an all-stopword query against entries with tokens
C4_Witness ==
    /\ pc = "matched"
    /\ user_input # << >>
    /\ preprocess(user_input) = << >>
    /\ Len(knowledge_base) = MaxCorpus
    /\ \A j \in 1..Len(knowledge_base) :
          preprocess(knowledge_base[j].question) # << >>
    /\ result.compared = MaxCorpus
    /\ result.best_match = None

SelfMatch ==
    /\ pc = "matched"
    /\ Len(knowledge_base) = 1
    /\ user_input = knowledge_base[1].question
    /\ threshold = Zero

\* C5 as stated: matching an entry's own question against the corpus of
\* that entry alone, with threshold 0, returns the entry with score 1.0.
C5_SelfSimilarity ==
    SelfMatch => (result.best_match = 1 /\ result.highest_similarity = One)

\* C5 amended: when the entry's question normalizes to at least one token,
\* the entry is returned and its score is the double computed for the
\* exact value 1.
C5_SelfSimilarityNonEmpty ==
    (SelfMatch /\ preprocess(knowledge_base[1].question) # << >>) =>
        /\ result.best_match = 1
        /\ result.highest_similarity.num * result.highest_similarity.num
              = result.highest_similarity.den2

\* a question with a repeated token is matched against itself
C5_Witness ==
    /\ SelfMatch
    /\ \E t \in DOMAIN vectorize(preprocess(user_input)) :
          vectorize(preprocess(user_input))[t] > 1
    /\ result.best_match = 1

\* C6: a non-empty input that contains a greeting or an exit phrase is
\* answered from the response list of a category it contains, and neither
\* load_knowledge_base nor find_best_match is called.
C6_Shortcut ==
    LET text == Strip(user_input)
    IN (pc = "responded" /\ text # << >> /\ (HasGreeting(text) \/ HasExit(text)))
       => /\ response \in
                (IF HasGreeting(text) THEN GreetingResponses ELSE {})
                \cup (IF HasExit(text) THEN ExitResponses ELSE {})
          /\ called = {}

\* an exit phrase is answered while a loadable knowledge base is on disk
C6_Witness ==
    /\ pc = "responded"
    /\ HasExit(Strip(user_input))
    /\ ~ HasGreeting(Strip(user_input))
    /\ load_knowledge_base(file) # << >>
    /\ response \in ExitResponses
    /\ called = {}

\* C7: matching again with a threshold at least as large keeps None, and
\* when both calls return an entry it is the same entry.
C7_ThresholdMonotone ==
    pc = "raised" =>
        /\ previous.result.best_match = None => result.best_match = None
        /\ (previous.result.best_match # None /\ result.best_match # None)
              => result.best_match = previous.result.best_match

\* both thresholds are cleared although an earlier entry clears only the
\* lower one
C7_Witness ==
    /\ pc = "raised"
    /\ Gt(threshold, previous.threshold)
    /\ result.best_match # None
    /\ result.best_match = previous.result.best_match
    /\ \E j \in 1..Len(knowledge_base) :
          /\ j < result.best_match
          /\ Gt(Score(j), previous.threshold)

\* C8: with every entry duplicated the same entry, at its earliest
\* occurrence and with the same score, is returned, or None in both cases.
C8_Duplication ==
    pc = "duplicated" =>
        IF previous.result.best_match = None
        THEN result.best_match = None
        ELSE /\ result.best_match = 2 * previous.result.best_match - 1
             /\ knowledge_base[result.best_match]
                   = previous.knowledge_base[previous.result.best_match]
             /\ result.highest_similarity = previous.result.highest_similarity

\* the second entry of a corpus of distinct entries is returned in both
C8_Witness ==
    /\ pc = "duplicated"
    /\ previous.result.best_match = 2
    /\ result.best_match = 3
    /\ previous.knowledge_base[1] # previous.knowledge_base[2]

Malformed(entry) ==
    "question" \notin DOMAIN entry \/ "answer" \notin DOMAIN entry

====
